---- MODULE Spec2Model ----
(***************************************************************************)
(* Brain Wave Analyzer: the analysis core (src/backend.py), the HTTP       *)
(* handler POST /analyze-edf/ (src/backend.py) and the Streamlit client    *)
(* (src/frontend.py).                                                      *)
(*                                                                         *)
(* Units: frequencies are tenths of a hertz (0.1 Hz = 1, 40.0 Hz = 400),   *)
(* times are whole seconds.  An optional value (Python None, or an omitted *)
(* keyword argument) is the empty tuple <<>>, a present value v is <<v>>.  *)
(* The signal-processing and plotting libraries are a boundary: a filter,  *)
(* a crop or a PSD is recorded by its arguments, not computed.             *)
(***************************************************************************)
EXTENDS Integers, Sequences, FiniteSets, TLC

VARIABLES
    call,         \* library-level call under test: function name and arguments
    ret,          \* what that call returned or raised
    pc,           \* position of the request handler analyze_edf_file
    req,          \* the request being handled: filename, upload, start_time
    tempFiles,    \* names of the temporary .edf files that exist on disk
    session,      \* handler locals: temp_file.name, analysis_id, files written
    figures,      \* files under static/figures
    openFigures,  \* figures open in matplotlib's process-wide state
    resp,         \* the HTTP response of the request
    served,       \* number of requests completed so far
    ui            \* the Streamlit script run: position, outcome, what is shown

vars == <<call, ret, pc, req, tempFiles, session, figures, openFigures, resp, served, ui>>

None == <<>>
Some(v) == <<v>>
IsNone(o) == o = <<>>
Val(o) == o[1]

Min(a, b) == IF a <= b THEN a ELSE b

----------------------------------------------------------------------------
(* Bounds of the model *)

MaxStart == 2
MaxDuration == 62
MaxRanges == 3
MaxRequests == 2
MaxRuns == 2

(* Program constants *)

WindowSeconds == 60
PreprocessDefaultLow == 1
PreprocessDefaultHigh == 300
ProcessDefaultLow == 1
ProcessDefaultHigh == 400
DefaultStartTime == 0
ApiLowFreq == 1
ApiHighFreq == 400
SubplotCols == 2

StartTimes == (-1 .. MaxStart) \cup {30}
Durations == {0} \cup (59 .. MaxDuration) \cup {90}
\* A file's content: a valid EDF recording of some duration, or not an EDF file.
Corrupt == [valid |-> FALSE, duration |-> 0]
Edf(d) == [valid |-> TRUE, duration |-> d]
Contents == {Corrupt} \cup {Edf(d) : d \in Durations}
LowFreqs == {1, 5}
HighFreqs == {200, 300, 400}
Paths == {"test.edf", "eeg_recording.edf"}

----------------------------------------------------------------------------
(* Recording Loader and Preprocessing Pipeline *)

\* A recording object: its times[-1], the band-pass applied to it, its crop.
NewRecording(duration) == [duration |-> duration, filter |-> None, crop |-> None]

\* mne.io.read_raw_edf on the file at file_path: an object, or an error for a
\* file that is no EDF file.  disk maps each path to the file's content.
read_mne_file(disk, file_path) ==
    IF ~disk[file_path].valid
    THEN [ok |-> FALSE, raw |-> NewRecording(0)]
    ELSE [ok |-> TRUE, raw |-> NewRecording(disk[file_path].duration)]

\* raw.copy(): a new object, appended to the heap, equal to the original.
RawCopy(heap, id) == Append(heap, heap[id])

\* Raw.filter works in place on the object it is called on and returns it.
RawFilter(heap, id, l_freq, h_freq) ==
    [heap EXCEPT ![id].filter = <<l_freq, h_freq>>]

\* Raw.crop works in place on the object it is called on and returns it.
RawCrop(heap, id, tmin, tmax) ==
    [heap EXCEPT ![id].crop = <<tmin, tmax>>]

\* Mutant: the upper end of the window is compared with >= instead of >.
StartTimeRejectedOffByOne(start_time, duration) ==
    start_time < 0 \/ start_time + WindowSeconds >= duration

\* The window check of preprocess_mne_file.
StartTimeRejected(start_time, duration) ==
    start_time < 0 \/ start_time + WindowSeconds > duration

\* Mutant: the filter is applied to the loaded recording itself.
FilterTargetInPlace(heap, rawId) == [heap |-> heap, id |-> rawId]

\* Which object the band-pass filter is applied to: a copy of raw.
FilterTarget(heap, rawId) == [heap |-> RawCopy(heap, rawId), id |-> Len(heap) + 1]

\* preprocess_mne_file(file_path, low_freq, high_freq, start_time): the status,
\* the heap of recording objects (raw has id 1), the paths read, the calls made
\* on recording objects, the object returned (0 when it raised).
preprocess_mne_file(disk, file_path, low_freq, high_freq, start_time) ==
    LET rd == read_mne_file(disk, file_path)
    IN  IF ~rd.ok
        THEN [status |-> "ReadError", heap |-> <<>>, reads |-> <<file_path>>,
              calls |-> <<>>, result |-> 0]
        ELSE IF StartTimeRejected(start_time, rd.raw.duration)
        THEN [status |-> "InvalidStartTime", heap |-> <<rd.raw>>,
              reads |-> <<file_path>>, calls |-> <<>>, result |-> 0]
        ELSE LET t  == FilterTarget(<<rd.raw>>, 1)
                 h2 == RawFilter(t.heap, t.id, low_freq, high_freq)
                 h3 == RawCrop(h2, t.id, start_time, start_time + WindowSeconds)
             IN  [status |-> "ok", heap |-> h3, reads |-> <<file_path>>,
                  calls |-> << <<"filter", t.id, low_freq, high_freq>>,
                               <<"crop", t.id, start_time, start_time + WindowSeconds>> >>,
                  result |-> t.id]

\* The keyword defaults of preprocess_mne_file.
PreprocessArgs(a) ==
    [low_freq   |-> IF IsNone(a.low_freq) THEN PreprocessDefaultLow ELSE Val(a.low_freq),
     high_freq  |-> IF IsNone(a.high_freq) THEN PreprocessDefaultHigh ELSE Val(a.high_freq),
     start_time |-> IF IsNone(a.start_time) THEN DefaultStartTime ELSE Val(a.start_time)]

----------------------------------------------------------------------------
(* Spectral Analysis Engine: collect_and_plot_psds *)

\* plt.subplots(nrows, 2) followed by axes.flatten(): nrows * 2 Axes objects,
\* or matplotlib's ValueError when nrows is not positive.
Subplots(nrows) ==
    IF nrows <= 0
    THEN [ok |-> FALSE, axes |-> <<>>]
    ELSE [ok |-> TRUE,
          axes |-> [i \in 1 .. nrows * SubplotCols |-> [kind |-> "Axes", idx |-> i]]]

\* The n_ranges == 1 special case: the flattened array is wrapped in a list,
\* so the list's one element is the array of Axes, not an Axes.
WrapSingle(n_ranges, axes) ==
    IF n_ranges = 1 THEN << [kind |-> "ndarray", idx |-> 0] >> ELSE axes

\* Mutant: equal bounds are let through.
BandRejectedStrict(fmin, fmax) ==
    ~IsNone(fmin) /\ ~IsNone(fmax) /\ Val(fmin) > Val(fmax)

\* The ordering check on one (fmin, fmax).
BandRejected(fmin, fmax) ==
    ~IsNone(fmin) /\ ~IsNone(fmax) /\ Val(fmin) >= Val(fmax)

\* The keyword arguments the four branches pass to data.compute_psd; every
\* bound of the model has Python type float.
ComputePsdArgs(fmin, fmax) ==
    IF IsNone(fmax) /\ ~IsNone(fmin) THEN [fmin |-> fmin, fmax |-> None]
    ELSE IF IsNone(fmin) /\ ~IsNone(fmax) THEN [fmin |-> None, fmax |-> fmax]
    ELSE IF IsNone(fmin) /\ IsNone(fmax) THEN [fmin |-> None, fmax |-> None]
    ELSE [fmin |-> fmin, fmax |-> fmax]

\* spectrum.get_data(return_freqs=True) of data.compute_psd(**kw): the power
\* matrix and the frequency axis, each identified by what it was computed from.
compute_psd(data, kw) ==
    [psds  |-> [of |-> data, fmin |-> kw.fmin, fmax |-> kw.fmax],
     freqs |-> [fmin |-> kw.fmin, fmax |-> kw.fmax]]

\* The for loop over zip(axes, ranges, titles, strict=False), from position i.
RECURSIVE CollectLoop(_, _, _, _, _, _, _, _)
CollectLoop(data, axes, ranges, titles, i, freqs_list, psd_list, plotted) ==
    IF i > Min(Len(axes), Min(Len(ranges), Len(titles)))
    THEN [status |-> "ok", freqs_list |-> freqs_list, psd_list |-> psd_list,
          plotted |-> plotted]
    ELSE LET fmin == ranges[i][1]
             fmax == ranges[i][2]
             sp   == compute_psd(data, ComputePsdArgs(fmin, fmax))
         IN  IF BandRejected(fmin, fmax)
             THEN [status |-> "InvalidBand", freqs_list |-> <<>>, psd_list |-> <<>>,
                   plotted |-> plotted]
             ELSE IF axes[i].kind # "Axes"
             THEN [status |-> "AttributeError", freqs_list |-> <<>>, psd_list |-> <<>>,
                   plotted |-> plotted]
             ELSE CollectLoop(data, axes, ranges, titles, i + 1,
                              Append(freqs_list, sp.freqs), Append(psd_list, sp.psds),
                              Append(plotted, [ax |-> axes[i].idx, title |-> titles[i]]))

\* collect_and_plot_psds(data, ranges, titles, plot): the status, the two lists
\* returned (empty when it raised), the figures it opened and left open, and
\* whether plt.show() ran.
collect_and_plot_psds(data, ranges, titles, plot) ==
    LET n_ranges == Len(ranges)
        sub == Subplots((n_ranges \div 2) + (n_ranges % 2))
    IN  IF ~sub.ok
        THEN [status |-> "SubplotsError", freqs_list |-> <<>>, psd_list |-> <<>>,
              plotted |-> <<>>, opened |-> 1, shown |-> FALSE]
        ELSE LET r == CollectLoop(data, WrapSingle(n_ranges, sub.axes), ranges, titles,
                                  1, <<>>, <<>>, <<>>)
             IN  [status |-> r.status, freqs_list |-> r.freqs_list,
                  psd_list |-> r.psd_list, plotted |-> r.plotted, opened |-> 1,
                  shown |-> (r.status = "ok" /\ plot)]

----------------------------------------------------------------------------
(* Analysis Orchestrator: process_edf_data *)

\* The six canonical bands, with low_freq and high_freq substituted.
FreqRanges(low_freq, high_freq) ==
    << <<Some(5), Some(40)>>,
       <<Some(40), Some(80)>>,
       <<Some(80), Some(130)>>,
       <<Some(130), Some(300)>>,
       <<Some(300), Some(high_freq)>>,
       <<Some(low_freq), Some(high_freq)>> >>

\* Mutant: the Full Spectrum band is left out.
TitlesFive ==
    << "Delta (0.5-4 Hz)", "Theta (4-8 Hz)", "Alpha (8-13 Hz)", "Beta (13-30 Hz)",
       "Gamma (30+ Hz)" >>

\* The six labels, in the order of the bands.
Titles ==
    << "Delta (0.5-4 Hz)", "Theta (4-8 Hz)", "Alpha (8-13 Hz)", "Beta (13-30 Hz)",
       "Gamma (30+ Hz)", "Full Spectrum (0.5+ Hz)" >>

\* The keyword defaults of process_edf_data.
ProcessArgs(a) ==
    [low_freq   |-> IF IsNone(a.low_freq) THEN ProcessDefaultLow ELSE Val(a.low_freq),
     high_freq  |-> IF IsNone(a.high_freq) THEN ProcessDefaultHigh ELSE Val(a.high_freq),
     start_time |-> IF IsNone(a.start_time) THEN DefaultStartTime ELSE Val(a.start_time)]

\* float(psd.mean()) of each band, and float(psd.sum() / total_power) with
\* total_power the sum over all the bands of psd_list.
AveragePower(psd_list) == [i \in 1 .. Len(psd_list) |-> [mean_of |-> psd_list[i]]]
RelativePower(psd_list) ==
    [i \in 1 .. Len(psd_list) |-> [sum_of |-> psd_list[i], over |-> Len(psd_list)]]

\* process_edf_data(file_path, low_freq, high_freq, start_time): the status, the
\* four values returned, the calls made to preprocess_mne_file, and the figures
\* left open by collect_and_plot_psds.
process_edf_data(disk, file_path, low_freq, high_freq, start_time) ==
    LET pre == preprocess_mne_file(disk, file_path, low_freq, high_freq, start_time)
        pcalls == << [file_path |-> file_path, low_freq |-> low_freq,
                      high_freq |-> high_freq, start_time |-> start_time] >>
        failed(st, opened) ==
            [status |-> st, results |-> [freq_bands |-> <<>>, average_power |-> <<>>,
                                         relative_power |-> <<>>],
             freqs_list |-> <<>>, psd_list |-> <<>>, titles |-> <<>>,
             preprocess_calls |-> pcalls, opened |-> opened]
    IN  IF pre.status # "ok"
        THEN failed(pre.status, 0)
        ELSE LET col == collect_and_plot_psds(pre.heap[pre.result],
                                              FreqRanges(low_freq, high_freq), Titles, FALSE)
             IN  IF col.status # "ok"
                 THEN failed(col.status, col.opened)
                 ELSE [status |-> "ok",
                       results |-> [freq_bands |-> Titles,
                                    average_power |-> AveragePower(col.psd_list),
                                    relative_power |-> RelativePower(col.psd_list)],
                       freqs_list |-> col.freqs_list, psd_list |-> col.psd_list,
                       titles |-> Titles, preprocess_calls |-> pcalls,
                       opened |-> col.opened]

----------------------------------------------------------------------------
(* State at rest of each part; a specification of one part pins the others. *)

NoCall == [fn |-> "none", disk |-> <<>>, path |-> "", a |-> <<>>, ranges |-> <<>>,
           titles |-> <<>>, plot |-> FALSE]
NoRet == [status |-> "pending"]
NoReq == [present |-> FALSE, filename |-> <<"", "">>, content |-> Corrupt,
          start_time |-> 0]
NoSession == [temp |-> 0, analysis_id |-> "", written |-> {}, error |-> "",
              out |-> <<>>]
NoResp == [status |-> 0, detail |-> "", analysis_id |-> "", plot_urls |-> <<>>,
           results |-> <<>>]
NoUi == [pc |-> "off", runs |-> 0, raised |-> "", status |-> 0, fetched |-> 0,
         errors |-> <<>>, shown |-> {}]

LibAtRest == call = NoCall /\ ret = NoRet
ApiAtRest ==
    /\ pc = "off" /\ req = NoReq /\ tempFiles = {} /\ session = NoSession
    /\ figures = {} /\ openFigures = 0 /\ resp = NoResp /\ served = 0
UiAtRest == ui = NoUi

apiVars == <<pc, req, tempFiles, session, figures, openFigures, resp, served>>
libVars == <<call, ret>>

----------------------------------------------------------------------------
(* Library calls: each function applied to inputs drawn from bounded sets. *)

OptOf(S) == {None} \cup {Some(v) : v \in S}
KwArgs == [low_freq : OptOf(LowFreqs), high_freq : OptOf(HighFreqs),
           start_time : OptOf(StartTimes)]
Disks == [Paths -> Contents]

BandBounds == OptOf({50, 100})
Bands == BandBounds \X BandBounds
RECURSIVE SeqsUpTo(_, _)
SeqsUpTo(S, n) ==
    IF n = 0 THEN {<<>>}
    ELSE LET shorter == SeqsUpTo(S, n - 1)
         IN  shorter \cup {Append(q, x) : q \in {r \in shorter : Len(r) = n - 1}, x \in S}
TitleLists == {SubSeq(Titles, 1, k) : k \in 0 .. MaxRanges}
SampleData == [duration |-> 90, filter |-> <<1, 400>>, crop |-> <<0, 60>>]

LibInit ==
    /\ \/ \E d \in Disks, p \in Paths, a \in KwArgs :
            call = [NoCall EXCEPT !.fn = "preprocess_mne_file", !.disk = d, !.path = p,
                                  !.a = a]
       \/ \E d \in Disks, p \in Paths, a \in KwArgs :
            call = [NoCall EXCEPT !.fn = "process_edf_data", !.disk = d, !.path = p,
                                  !.a = a]
       \/ \E rs \in SeqsUpTo(Bands, MaxRanges), ts \in TitleLists, pl \in BOOLEAN :
            call = [NoCall EXCEPT !.fn = "collect_and_plot_psds", !.ranges = rs,
                                  !.titles = ts, !.plot = pl]
    /\ ret = NoRet
    /\ ApiAtRest /\ UiAtRest

CallPreprocess ==
    /\ call.fn = "preprocess_mne_file" /\ ret = NoRet
    /\ LET a == PreprocessArgs(call.a)
       IN  ret' = preprocess_mne_file(call.disk, call.path, a.low_freq, a.high_freq,
                                      a.start_time)
    /\ UNCHANGED <<call, apiVars, ui>>

CallCollect ==
    /\ call.fn = "collect_and_plot_psds" /\ ret = NoRet
    /\ ret' = collect_and_plot_psds(SampleData, call.ranges, call.titles, call.plot)
    /\ UNCHANGED <<call, apiVars, ui>>

CallProcess ==
    /\ call.fn = "process_edf_data" /\ ret = NoRet
    /\ LET a == ProcessArgs(call.a)
       IN  ret' = process_edf_data(call.disk, call.path, a.low_freq, a.high_freq,
                                   a.start_time)
    /\ UNCHANGED <<call, apiVars, ui>>

LibNext == CallPreprocess \/ CallCollect \/ CallProcess

SpecLib == LibInit /\ [][LibNext]_vars

----------------------------------------------------------------------------
(* HTTP API Service: POST /analyze-edf/ (analyze_edf_file) *)

\* A filename is <<stem, extension>>; the name itself is the two joined.
Filenames == { <<"test", ".edf">>, <<"test", ".txt">>, <<"", "">>, <<"", ".edf">> }
IsEmptyName(f) == f[1] = "" /\ f[2] = ""

\* Mutant: any non-empty extension is accepted.
EndsWithAnyExtension(f) == f[2] # ""

\* file.filename.endswith(".edf")
EndsWithEdf(f) == f[2] = ".edf"

Uuids == {"u1", "u2"}
ApiStartTimes == {-1, 0, 1, 30}
ApiContents == {Corrupt, Edf(60), Edf(90)}

\* The file names and URLs of the three plots of an analysis.
FigureFile(analysis_id, suffix) == <<analysis_id, suffix, ".png">>

\* Mutant: the URL is built without the figures directory.
PlotUrlNoFigures(filename) == <<"/static/">> \o filename

\* f"/static/figures/{filename}"
PlotUrl(filename) == <<"/static/figures/">> \o filename

PlotSuffix(k) ==
    IF k = 1 THEN "_frequency_bands" ELSE IF k = 2 THEN "_avg_power" ELSE "_rel_power"

HttpError(status, prefix, message) ==
    [NoResp EXCEPT !.status = status, !.detail = <<prefix, message>>]

ApiInit ==
    /\ pc = "idle" /\ req = NoReq /\ tempFiles = {} /\ session = NoSession
    /\ figures = {} /\ openFigures = 0 /\ resp = NoResp /\ served = 0
    /\ LibAtRest /\ UiAtRest

\* The framework binds the request: a request without the file field is
\* answered 422 before the handler runs.
Receive ==
    /\ pc = "idle" /\ served < MaxRequests
    /\ \E present \in BOOLEAN, f \in Filenames, c \in ApiContents, st \in ApiStartTimes :
         /\ present \/ (f = NoReq.filename /\ c = NoReq.content /\ st = NoReq.start_time)
         /\ req' = [present |-> present, filename |-> f, content |-> c, start_time |-> st]
         /\ IF present
            THEN pc' = "validate" /\ resp' = NoResp
            ELSE pc' = "done" /\ resp' = HttpError(422, "Field required", "")
    /\ session' = NoSession
    /\ UNCHANGED <<tempFiles, figures, openFigures, served, libVars, ui>>

\* Lines 239-244: the two checks before any file is created.
Validate ==
    /\ pc = "validate"
    /\ IF ~req.present
       THEN pc' = "done" /\ resp' = HttpError(400, "No file uploaded", "")
       ELSE IF IsEmptyName(req.filename) \/ ~EndsWithEdf(req.filename)
       THEN pc' = "done" /\ resp' = HttpError(400, "Only .edf files are supported", "")
       ELSE pc' = "create_temp" /\ resp' = resp
    /\ UNCHANGED <<req, tempFiles, session, figures, openFigures, served, libVars, ui>>

\* tempfile.NamedTemporaryFile(delete=False, suffix=".edf"): a new file under a
\* name no existing file has.
CreateTemp ==
    /\ pc = "create_temp"
    /\ session' = [session EXCEPT !.temp = served + 1]
    /\ tempFiles' = tempFiles \cup {served + 1}
    /\ pc' = "save"
    /\ UNCHANGED <<req, figures, openFigures, resp, served, libVars, ui>>

\* shutil.copyfileobj into the temp file.  When it raises, the except clause
\* raises HTTPException 500, which leaves the handler: this try has no finally.
SaveUpload ==
    /\ pc = "save"
    /\ \E copied \in BOOLEAN :
         IF copied
         THEN pc' = "process" /\ resp' = resp
         ELSE /\ pc' = "done"
              /\ resp' = HttpError(500, "Error saving uploaded file: ", "IOError")
    /\ UNCHANGED <<req, tempFiles, session, figures, openFigures, served, libVars, ui>>

\* process_edf_data on the temp file, then uuid.uuid4().  Any exception is
\* caught by "except Exception" and answered 500; the finally clause follows.
Process ==
    /\ pc = "process"
    /\ LET out == process_edf_data([p \in {session.temp} |-> req.content], session.temp,
                                   ApiLowFreq, ApiHighFreq, req.start_time)
       IN  /\ openFigures' = openFigures + out.opened
           /\ IF out.status # "ok"
              THEN /\ session' = [session EXCEPT !.error = out.status]
                   /\ resp' = HttpError(500, "Error processing file: ", out.status)
                   /\ pc' = "finally"
              ELSE /\ \E id \in Uuids :
                        session' = [session EXCEPT !.out = out, !.analysis_id = id]
                   /\ resp' = resp
                   /\ pc' = "fig1"
    /\ UNCHANGED <<req, tempFiles, figures, served, libVars, ui>>

\* One of the three plots: plt.figure(), the drawing calls, plt.savefig() and
\* plt.close().  A failure of rendering or saving raises before plt.close().
SaveFigure(k) ==
    /\ pc = (IF k = 1 THEN "fig1" ELSE IF k = 2 THEN "fig2" ELSE "fig3")
    /\ \E saved \in BOOLEAN :
         IF saved
         THEN /\ figures' = figures \cup {FigureFile(session.analysis_id, PlotSuffix(k))}
              /\ session' = [session EXCEPT !.written =
                               @ \cup {FigureFile(session.analysis_id, PlotSuffix(k))}]
              /\ openFigures' = openFigures
              /\ resp' = resp
              /\ pc' = (IF k = 1 THEN "fig2" ELSE IF k = 2 THEN "fig3" ELSE "return")
         ELSE /\ figures' = figures
              /\ session' = [session EXCEPT !.error = "RenderError"]
              /\ openFigures' = openFigures + 1
              /\ resp' = HttpError(500, "Error processing file: ", "RenderError")
              /\ pc' = "finally"
    /\ UNCHANGED <<req, tempFiles, served, libVars, ui>>

\* The else clause of the try: the success body.
Return ==
    /\ pc = "return"
    /\ resp' = [status |-> 200, detail |-> "File processed successfully",
                analysis_id |-> session.analysis_id,
                plot_urls |->
                  [frequency_bands_plot |->
                     PlotUrl(FigureFile(session.analysis_id, PlotSuffix(1))),
                   average_power_plot |->
                     PlotUrl(FigureFile(session.analysis_id, PlotSuffix(2))),
                   relative_power_plot |->
                     PlotUrl(FigureFile(session.analysis_id, PlotSuffix(3)))],
                results |-> session.out.results]
    /\ pc' = "finally"
    /\ UNCHANGED <<req, tempFiles, session, figures, openFigures, served, libVars, ui>>

\* The finally clause: the temp file is unlinked if it exists.
Finally ==
    /\ pc = "finally"
    /\ tempFiles' = tempFiles \ {session.temp}
    /\ pc' = "done"
    /\ UNCHANGED <<req, session, figures, openFigures, resp, served, libVars, ui>>

\* The response is sent; the handler's locals are gone.
Complete ==
    /\ pc = "done"
    /\ served' = served + 1
    /\ pc' = "idle" /\ req' = NoReq /\ session' = NoSession /\ resp' = NoResp
    /\ UNCHANGED <<tempFiles, figures, openFigures, libVars, ui>>

Init == ApiInit

Next ==
    \/ Receive \/ Validate \/ CreateTemp \/ SaveUpload \/ Process
    \/ \E k \in 1 .. 3 : SaveFigure(k)
    \/ Return \/ Finally \/ Complete

Spec == Init /\ [][Next]_vars

----------------------------------------------------------------------------
(* Interactive UI Client: the Streamlit script of frontend.py *)

\* Exceptions an outbound requests call raises (requests wraps the socket
\* errors of the layers below it), and each class's direct bases.
\* "ConnectionError" is Python's builtin: the script imports only Timeout from
\* requests.exceptions, so the builtin is what its second except clause names.
Raisable == {"requests.ConnectTimeout", "requests.ReadTimeout",
             "requests.ConnectionError", "requests.TooManyRedirects",
             "requests.ChunkedEncodingError"}

Bases(c) ==
    IF c = "requests.ConnectTimeout" THEN {"requests.ConnectionError", "requests.Timeout"}
    ELSE IF c = "requests.ReadTimeout" THEN {"requests.Timeout"}
    ELSE IF c = "requests.Timeout" THEN {"requests.RequestException"}
    ELSE IF c = "requests.ConnectionError" THEN {"requests.RequestException"}
    ELSE IF c = "requests.TooManyRedirects" THEN {"requests.RequestException"}
    ELSE IF c = "requests.ChunkedEncodingError" THEN {"requests.RequestException"}
    ELSE IF c = "requests.RequestException" THEN {"OSError"}
    ELSE IF c = "ConnectionResetError" THEN {"ConnectionError"}
    ELSE IF c = "ConnectionError" THEN {"OSError"}
    ELSE {}

RECURSIVE IsSubclass(_, _)
IsSubclass(c, d) == c = d \/ \E b \in Bases(c) : IsSubclass(b, d)

TimeoutMessage == <<"Request timed out. The server might be overloaded or down.">>
ConnectionMessage ==
    <<"Connection error. Please check if the backend server is running.">>
RequestErrorMessage(e) == <<"Error making request: ", e>>
StatusMessage(status) == <<"Error: ", status, " - ", "body">>

\* The class the second except clause names: the builtin ConnectionError.
ConnectionClause == "ConnectionError"

\* The except clauses in order: the first one the exception is an instance of
\* decides the message.
ExceptMessage(e) ==
    IF IsSubclass(e, "requests.Timeout") THEN TimeoutMessage
    ELSE IF IsSubclass(e, ConnectionClause) THEN ConnectionMessage
    ELSE IF IsSubclass(e, "requests.RequestException") THEN RequestErrorMessage(e)
    ELSE <<"uncaught", e>>

Statuses == {200, 400, 404, 422, 500}

UiInit ==
    /\ ui = [NoUi EXCEPT !.pc = "start"]
    /\ LibAtRest /\ ApiAtRest

\* A script run: with no file selected it shows the prompt and ends.
UiStart ==
    /\ ui.pc = "start"
    /\ \E uploaded \in BOOLEAN :
         ui' = IF uploaded
               THEN [ui EXCEPT !.pc = "post"]
               ELSE [ui EXCEPT !.pc = "done", !.shown = {"info"}]
    /\ UNCHANGED <<libVars, apiVars>>

\* requests.post(..., timeout=30): an exception, or a response with a status.
UiPost ==
    /\ ui.pc = "post"
    /\ \/ \E e \in Raisable :
            ui' = [ui EXCEPT !.pc = "done", !.raised = e,
                             !.errors = Append(@, ExceptMessage(e))]
       \/ \E st \in Statuses :
            ui' = [ui EXCEPT !.status = st,
                             !.pc = IF st = 200 THEN "get" ELSE "else"]
    /\ UNCHANGED <<libVars, apiVars>>

\* One of the three requests.get(url, timeout=10).content, inside the same try.
UiGet ==
    /\ ui.pc = "get"
    /\ \/ \E e \in Raisable :
            ui' = [ui EXCEPT !.pc = "done", !.raised = e,
                             !.errors = Append(@, ExceptMessage(e))]
       \/ ui' = [ui EXCEPT !.fetched = @ + 1,
                           !.pc = IF ui.fetched + 1 = 3 THEN "render" ELSE "get"]
    /\ UNCHANGED <<libVars, apiVars>>

\* The images, the table and the download button.
UiRender ==
    /\ ui.pc = "render"
    /\ ui' = [ui EXCEPT !.pc = "else", !.shown = {"images", "table", "csv"}]
    /\ UNCHANGED <<libVars, apiVars>>

\* The else clause of the try statement: it runs whenever the try body ended
\* without an exception, whatever the status was.
UiElse ==
    /\ ui.pc = "else"
    /\ ui' = [ui EXCEPT !.pc = "done", !.errors = Append(@, StatusMessage(ui.status))]
    /\ UNCHANGED <<libVars, apiVars>>

\* Streamlit runs the script again on the next interaction, on a cleared page.
UiRerun ==
    /\ ui.pc = "done" /\ ui.runs < MaxRuns
    /\ ui' = [NoUi EXCEPT !.pc = "start", !.runs = ui.runs + 1]
    /\ UNCHANGED <<libVars, apiVars>>

UiNext == UiStart \/ UiPost \/ UiGet \/ UiRender \/ UiElse \/ UiRerun

SpecUI == UiInit /\ [][UiNext]_vars

----------------------------------------------------------------------------
(* Claims about the library functions, checked under SpecLib *)

Returned(fn) == call.fn = fn /\ ret # NoRet

\* The bands of a call: each range paired positionally with a title.
BandIndexes == 1 .. Min(Len(call.ranges), Len(call.titles))
BadOrder(b) == b[1] # None /\ b[2] # None /\ b[1][1] >= b[2][1]

\* C5: called with n >= 1 ranges, each with valid bounds, and n titles,
\* collect_and_plot_psds returns two lists of length n whose i-th entries are
\* the frequency axis and the power matrix computed for the i-th range.
C5_ParallelListsPerRange ==
    ( /\ Returned("collect_and_plot_psds")
      /\ Len(call.ranges) >= 1
      /\ Len(call.titles) = Len(call.ranges)
      /\ \A i \in 1 .. Len(call.ranges) : ~BadOrder(call.ranges[i]) )
    => /\ ret.status = "ok"
       /\ Len(ret.freqs_list) = Len(call.ranges)
       /\ Len(ret.psd_list) = Len(call.ranges)
       /\ \A i \in 1 .. Len(call.ranges) :
            /\ ret.freqs_list[i] = [fmin |-> call.ranges[i][1], fmax |-> call.ranges[i][2]]
            /\ ret.psd_list[i] = [of |-> SampleData, fmin |-> call.ranges[i][1],
                                  fmax |-> call.ranges[i][2]]

\* C6: the call fails with the ordering error exactly when some band (a range
\* paired with a title) has both bounds present and fmin >= fmax, and then it
\* returns no result lists; a band with fmin < fmax never raises that error.
C6_OrderingErrorExactly ==
    Returned("collect_and_plot_psds")
    => /\ (ret.status = "InvalidBand")
            <=> (\E i \in BandIndexes : BadOrder(call.ranges[i]))
       /\ ret.status = "InvalidBand" => ret.freqs_list = <<>> /\ ret.psd_list = <<>>

C6_Witness ==
    /\ Returned("collect_and_plot_psds")
    /\ ret.status = "InvalidBand"
    /\ Len(call.ranges) = 2 /\ Len(call.titles) = 2
    /\ call.ranges[1] = <<Some(50), Some(100)>>
    /\ call.ranges[2] = <<Some(100), Some(50)>>

\* C7: preprocess_mne_file raises the start_time error exactly when the file
\* loads and start_time < 0 or start_time + 60 > times[-1]; it has then applied
\* no filter and no crop; for every other start_time it returns.
C7_StartTimeErrorExactly ==
    Returned("preprocess_mne_file")
    => LET content == call.disk[call.path]
           start == IF call.a.start_time = None THEN 0 ELSE call.a.start_time[1]
           outside == start < 0 \/ start + 60 > content.duration
       IN  /\ (ret.status = "InvalidStartTime") <=> (content.valid /\ outside)
           /\ ret.status = "InvalidStartTime"
                => /\ ret.calls = <<>>
                   /\ ret.heap = << [duration |-> content.duration, filter |-> None,
                                     crop |-> None] >>
           /\ (content.valid /\ ~outside) => ret.status = "ok"

C7_Witness ==
    /\ Returned("preprocess_mne_file")
    /\ ret.status = "InvalidStartTime"
    /\ call.a.start_time = Some(1)
    /\ call.disk[call.path] = Edf(60)

\* C8: for an accepted start_time, preprocess_mne_file reads the given path
\* once, filters a copy of the loaded recording (the loaded recording stays as
\* read) with l_freq = low_freq and h_freq = high_freq (defaults 0.1 and 30.0),
\* crops that same copy to [start_time, start_time + 60] and returns it.
C8_FilterCopyThenCrop ==
    (Returned("preprocess_mne_file") /\ ret.status = "ok")
    => LET content == call.disk[call.path]
           low   == IF call.a.low_freq = None THEN 1 ELSE call.a.low_freq[1]
           high  == IF call.a.high_freq = None THEN 300 ELSE call.a.high_freq[1]
           start == IF call.a.start_time = None THEN 0 ELSE call.a.start_time[1]
       IN  /\ ret.reads = <<call.path>>
           /\ ret.result # 1
           /\ ret.heap[1] = [duration |-> content.duration, filter |-> None, crop |-> None]
           /\ ret.calls = << <<"filter", ret.result, low, high>>,
                             <<"crop", ret.result, start, start + 60>> >>
           /\ ret.heap[ret.result] = [duration |-> content.duration,
                                      filter |-> <<low, high>>,
                                      crop |-> <<start, start + 60>>]

C8_Witness ==
    /\ Returned("preprocess_mne_file")
    /\ ret.status = "ok"
    /\ call.a.start_time = Some(30)
    /\ call.a.high_freq = None
    /\ ret.heap[ret.result].crop = <<30, 90>>
    /\ ret.heap[ret.result].filter = <<1, 300>>

\* C9: whenever process_edf_data returns, freq_bands, average_power and
\* relative_power have 6 entries each, freq_bands and the returned titles are
\* the six labels in the fixed order, and preprocess_mne_file was called once
\* with the low_freq, high_freq (default 40.0) and start_time given.
C9_SixBandsFixedOrder ==
    (Returned("process_edf_data") /\ ret.status = "ok")
    => LET labels == << "Delta (0.5-4 Hz)", "Theta (4-8 Hz)", "Alpha (8-13 Hz)",
                        "Beta (13-30 Hz)", "Gamma (30+ Hz)", "Full Spectrum (0.5+ Hz)" >>
           low   == IF call.a.low_freq = None THEN 1 ELSE call.a.low_freq[1]
           high  == IF call.a.high_freq = None THEN 400 ELSE call.a.high_freq[1]
           start == IF call.a.start_time = None THEN 0 ELSE call.a.start_time[1]
       IN  /\ Len(ret.results.freq_bands) = 6
           /\ Len(ret.results.average_power) = 6
           /\ Len(ret.results.relative_power) = 6
           /\ ret.results.freq_bands = labels
           /\ ret.titles = labels
           /\ ret.preprocess_calls = << [file_path |-> call.path, low_freq |-> low,
                                         high_freq |-> high, start_time |-> start] >>

C9_Witness ==
    /\ Returned("process_edf_data")
    /\ ret.status = "ok"
    /\ call.a.high_freq = None
    /\ call.a.start_time = Some(30)
    /\ Len(ret.results.relative_power) = 6

\* C12: for every low_freq and high_freq process_edf_data accepts, each of the
\* six bands it builds has fmin < fmax, so it never fails with the engine's
\* 'fmin must be less than fmax' error.  The bands are built once the
\* Preprocessing Pipeline has returned.
C12_SixBandsAlwaysOrdered ==
    (Returned("process_edf_data") /\ ret.status \notin {"ReadError", "InvalidStartTime"})
    => LET low   == IF call.a.low_freq = None THEN 1 ELSE call.a.low_freq[1]
           high  == IF call.a.high_freq = None THEN 400 ELSE call.a.high_freq[1]
           bands == FreqRanges(low, high)
       IN  /\ \A i \in 1 .. Len(bands) : bands[i][1][1] < bands[i][2][1]
           /\ ret.status # "InvalidBand"

----------------------------------------------------------------------------
(* Claims about POST /analyze-edf/, checked under Spec *)

\* C1: once a request that created a temporary copy has completed, on any exit
\* path, that copy no longer exists on disk.
C1_TempCopyGoneWhenDone ==
    (pc = "done" /\ session.temp # 0) => session.temp \notin tempFiles

\* C2: a request with a valid .edf filename whose start_time the Preprocessing
\* Pipeline rejects (negative, or start_time + 60 beyond the duration) is
\* answered with HTTP 400.
C2_InvalidStartTimeIs400 ==
    ( /\ pc = "done"
      /\ req.present /\ EndsWithEdf(req.filename) /\ ~IsEmptyName(req.filename)
      /\ session.error = "InvalidStartTime" )
    => resp.status = 400

\* C10: a 200 response carries the analysis_id and the three plot URLs
\* /static/figures/{analysis_id}_{frequency_bands,avg_power,rel_power}.png of
\* that same id, and each of the three files was written under static/figures
\* during the request before the response was returned.
C10_PlotUrlsNameWrittenFiles ==
    (pc \in {"finally", "done"} /\ resp.status = 200)
    => LET id == resp.analysis_id
       IN  /\ id \in Uuids
           /\ resp.plot_urls =
                [frequency_bands_plot |->
                   <<"/static/figures/", id, "_frequency_bands", ".png">>,
                 average_power_plot |-> <<"/static/figures/", id, "_avg_power", ".png">>,
                 relative_power_plot |-> <<"/static/figures/", id, "_rel_power", ".png">>]
           /\ \A sfx \in {"_frequency_bands", "_avg_power", "_rel_power"} :
                /\ <<id, sfx, ".png">> \in session.written
                /\ <<id, sfx, ".png">> \in figures

C10_Witness ==
    /\ pc = "done" /\ resp.status = 200
    /\ served = 1
    /\ Cardinality(session.written) = 3

\* C11: a request whose file has an empty filename or a filename not ending
\* in '.edf' is answered 400 'Only .edf files are supported', and the handler
\* goes from the check straight to that answer: no temporary file is created,
\* the Orchestrator is not invoked and no figure file is written.
C11_BadFilenameRejectedFirst ==
    (req.present /\ (req.filename = <<"", "">> \/ req.filename[2] # ".edf"))
    => /\ pc \in {"validate", "done"}
       /\ session = NoSession
       /\ session.temp \notin tempFiles
       /\ pc = "done"
            => /\ resp.status = 400
               /\ resp.detail = <<"Only .edf files are supported", "">>

C11_Witness ==
    /\ pc = "done"
    /\ req.present /\ req.filename = <<"test", ".txt">>
    /\ resp.status = 400
    /\ served = 1

\* C13: after any sequence of completed requests, successful or failed, every
\* figure opened while handling them has been closed: as many figures are open
\* as before the first request, none.
C13_NoFigureLeftOpen ==
    pc \in {"idle", "done"} => openFigures = 0

----------------------------------------------------------------------------
(* Claims about the UI client, checked under SpecUI *)

ShowsStatusMessage ==
    \E i \in 1 .. Len(ui.errors) : ui.errors[i][1] = "Error: "

\* C3: the UI shows 'Error: <status> - <body>' exactly when the response to the
\* analysis POST has a status other than 200; on 200 it shows the images, the
\* table and the CSV download and no error message.
C3_StatusMessageIffNot200 ==
    ui.pc = "done"
    => /\ ShowsStatusMessage <=> (ui.status # 0 /\ ui.status # 200)
       /\ (ui.status = 200 /\ ui.raised = "")
            => (ui.shown = {"images", "table", "csv"} /\ ui.errors = <<>>)

\* C4: a failed outbound call shows exactly one message: the timeout message
\* for a timeout, the connection message for requests' ConnectionError, and
\* 'Error making request: <text>' only for the remaining request errors.
C4_OneMessagePerFailure ==
    (ui.pc = "done" /\ ui.raised # "")
    => ui.errors =
         << IF IsSubclass(ui.raised, "requests.Timeout")
            THEN <<"Request timed out. The server might be overloaded or down.">>
            ELSE IF IsSubclass(ui.raised, "requests.ConnectionError")
            THEN <<"Connection error. Please check if the backend server is running.">>
            ELSE <<"Error making request: ", ui.raised>> >>

====
